---- MODULE Spec2Model ----
(***************************************************************************)
(* The room hub of the chat backend: backend/src/websocket.ts (the         *)
(* registry roomConnections, joinRoom, leaveRoom, sendMessage,             *)
(* cleanupOldMessages, broadcast, broadcastToRoom) and the room-delete     *)
(* route of backend/index.ts.                                              *)
(*                                                                         *)
(* The server is a single-threaded event loop: the code between two awaits *)
(* runs atomically.  Every `await db...` is therefore two steps here: the  *)
(* store executes the call, and later the handler resumes with the result; *)
(* any other handler step may run in between.  Where the resumed code only *)
(* decides what to ask or say next and touches no shared state, the        *)
(* store's answer and the resumption are one step.                         *)
(***************************************************************************)
EXTENDS Integers, Sequences, FiniteSets, Bags, TLC

\* ------------------------------------------------------------------ bounds

\* Asynchronous handlers (joinRoom, sendMessage, handleDeleteRoom) started over
\* a run; any number of them may be suspended at once.
MaxHandlers == 2

\* --------------------------------------------------------------- constants

\* `take: 50` of the history query of joinRoom.
HISTORY_TAKE == 50
\* `skip: 50` of the query of cleanupOldMessages.
CLEANUP_SKIP == 50

Conns == {"a", "b"}
RoomIds == {"r1", "r2"}
NoRoom == "null"

\* ws.data.userId and ws.data.username, fixed at upgrade.
UserIdOf(c) == IF c = "a" THEN "u1" ELSE "u2"
UsernameOfUser(u) == IF u = "u1" THEN "alice" ELSE "bob"
UsernameOf(c) == UsernameOfUser(UserIdOf(c))

Users == { UserIdOf(c) : c \in Conns }

\* The `token` of an upgrade request for connection c: none, one that fails
\* verification, or the token issued to c's user (written as the user's id).
TokensFor(c) == {"none", "forged", UserIdOf(c)}

\* verifyToken(token): the payload of a token that verifies, null otherwise.
VerifyToken(t) ==
    IF t \in Users THEN [ok |-> TRUE, userId |-> t, username |-> UsernameOfUser(t)]
    ELSE [ok |-> FALSE, userId |-> "-", username |-> "-"]

\* An authentication that accepts whatever it is given.
AuthenticateAnything(t) == [ok |-> TRUE, userId |-> "u1", username |-> "alice"]

\* authenticateWebSocket(url)
AuthenticateWebSocket(t) ==
    IF t = "none" THEN [ok |-> FALSE, userId |-> "-", username |-> "-"]
    ELSE VerifyToken(t)

\* The Authorization header of a delete request: none, a bearer token that
\* fails verification, or the token issued to a user.
DeleteTokens == {"none", "forged"} \cup Users

\* A delete route that takes every request for one of the first user.
DeletePayloadAnything(t) == [ok |-> TRUE, userId |-> "u1", username |-> "alice"]

\* handleDeleteRoom: extractToken, then verifyToken; null without a payload.
DeletePayload(t) ==
    IF t = "none" THEN [ok |-> FALSE, userId |-> "-", username |-> "-"]
    ELSE VerifyToken(t)

\* Content strings are sequences of characters; " " is whitespace.
Contents == { <<" ", " ">>, <<" ", "h", "i", " ">> }

\* ------------------------------------------------------------------- state

VARIABLES
    connState,        \* per connection: "new" (not upgraded), "open", "closed"
    roomId,           \* ws.data.roomId of each connection
    roomConnections,  \* the registry: a map from room id to a set of connections
    dbRooms,          \* ids of the rows of db.room
    dbMessages,       \* rows of db.message, in creation order
    nextMsgId,        \* the store's clock: id and createdAt of the next message
    handlers,         \* the suspended async handlers, a bag of records
    started,          \* how many async handlers the run has started
    event,            \* the handler step taken last
    sent,             \* the frames that step passed to ws.send, in order
    log,              \* the room events sent so far, in the order of the sends
    inbox,            \* per connection: the places in log of what was sent to it,
                      \* in the order of its socket
    currentRoomId     \* per connection: currentRoomId of its client's useWebSocket

vars == <<connState, roomId, roomConnections, dbRooms, dbMessages, nextMsgId,
          handlers, started, event, sent, log, inbox, currentRoomId>>

\* ----------------------------------------------------------------- helpers

Min(x, y) == IF x <= y THEN x ELSE y

\* Array.prototype.reverse; also the order of `orderBy: { createdAt: "desc" }`
\* applied to rows kept in creation order.
Reverse(s) == [i \in 1..Len(s) |-> s[Len(s) + 1 - i]]

\* `take: n` of a query.
Take(s, n) == SubSeq(s, 1, Min(n, Len(s)))

\* `skip: n` of a query.
Skip(s, n) == SubSeq(s, n + 1, Len(s))

\* Array.prototype.map.
Map(s, F(_)) == [i \in 1..Len(s) |-> F(s[i])]

Range(s) == { s[i] : i \in 1..Len(s) }

RECURSIVE TrimStart(_)
TrimStart(s) == IF s # <<>> /\ Head(s) = " " THEN TrimStart(Tail(s)) ELSE s

\* A trim that removes nothing.
TrimNothing(s) == s

\* String.prototype.trim: whitespace removed at both ends.
Trim(s) == Reverse(TrimStart(Reverse(TrimStart(s))))

\* Map.prototype.delete on the registry.
RemoveKey(f, k) == [x \in (DOMAIN f) \ {k} |-> f[x]]

\* Date.prototype.toISOString: an injective, order-preserving rendering.
ToISOString(t) == <<"iso", t>>

\* The MessageData built from a db.message row and its user.
MessageData(m) ==
    [id |-> m.id, content |-> m.content,
     username |-> UsernameOfUser(m.userId),
     createdAt |-> ToISOString(m.createdAt)]

\* Who created each room (room.creatorId).
CreatorOf(r) == IF r = "r1" THEN "u1" ELSE "u2"

\* ------------------------------------------------------------------ frames

RoomJoined(r, msgs) == [type |-> "ROOM_JOINED", roomId |-> r, messages |-> msgs]
RoomLeft == [type |-> "ROOM_LEFT"]
NewMessage(md) == [type |-> "NEW_MESSAGE", message |-> md]
UserJoined(name) == [type |-> "USER_JOINED", username |-> name]
UserLeft(name) == [type |-> "USER_LEFT", username |-> name]
RoomDeleted(r) == [type |-> "ROOM_DELETED", roomId |-> r]
ErrorFrame(text) == [type |-> "ERROR", message |-> text]

\* A loop that reaches every recipient twice.
EmitTwice(to, frame) ==
    IF to = {} THEN <<>>
    ELSE << [to |-> to, frame |-> frame], [to |-> to, frame |-> frame] >>

\* The frames that go to a room: broadcast and broadcastToRoom send them.
RoomEvents == {"NEW_MESSAGE", "USER_JOINED", "USER_LEFT", "ROOM_DELETED"}

\* One ws.send per recipient; `to` is the set of connections one loop reaches.
Emit(to, frame) == IF to = {} THEN <<>> ELSE << [to |-> to, frame |-> frame] >>

\* send(ws, data)
Send(c, frame) == Emit({c}, frame)

\* sendError(ws, message)
SendError(c, text) == Send(c, ErrorFrame(text))

\* broadcast without its `conn !== ws` test.
BroadcastWithSender(rc, c, r, frame) ==
    IF r \notin DOMAIN rc THEN <<>> ELSE Emit(rc[r], frame)

\* broadcast(ws, roomId, data) over registry rc: everyone in the room but ws.
Broadcast(rc, c, r, frame) ==
    IF r \notin DOMAIN rc THEN <<>> ELSE Emit(rc[r] \ {c}, frame)

\* broadcastToRoom reaching the members of every room.
BroadcastToEveryRoom(rc, r, frame) ==
    Emit(UNION { rc[x] : x \in DOMAIN rc }, frame)

\* broadcastToRoom(roomId, data) over registry rc: everyone in the room.
BroadcastToRoom(rc, r, frame) ==
    IF r \notin DOMAIN rc THEN <<>> ELSE Emit(rc[r], frame)

\* ------------------------------------------------------------------- store

\* Rows of room r, oldest first.
RoomMessages(msgs, r) == SelectSeq(msgs, LAMBDA m : m.roomId = r)

\* findMany({where: {roomId}, orderBy: {createdAt: "desc"}, take: 50})
FindRecent(msgs, r) == Take(Reverse(RoomMessages(msgs, r)), HISTORY_TAKE)

\* joinRoom without its messages.reverse().
HistoryOfNewestFirst(rows) == Map(rows, MessageData)

\* messages.reverse().map(...) of joinRoom
HistoryOf(rows) == Map(Reverse(rows), MessageData)

\* The query of cleanupOldMessages skipping one row too many.
FindOldSkipOneMore(msgs, r) ==
    Range(Map(Skip(Reverse(RoomMessages(msgs, r)), CLEANUP_SKIP + 1), LAMBDA m : m.id))

\* The query of cleanupOldMessages skipping one row too few.
FindOldSkipOneLess(msgs, r) ==
    Range(Map(Skip(Reverse(RoomMessages(msgs, r)), CLEANUP_SKIP - 1), LAMBDA m : m.id))

\* The query of cleanupOldMessages ordered oldest first.
FindOldAscending(msgs, r) ==
    Range(Map(Skip(RoomMessages(msgs, r), CLEANUP_SKIP), LAMBDA m : m.id))

\* findMany({where: {roomId}, orderBy: {createdAt: "desc"}, skip: 50, select: {id}})
FindOld(msgs, r) == Range(Map(Skip(Reverse(RoomMessages(msgs, r)), CLEANUP_SKIP), LAMBDA m : m.id))

\* deleteMany({where: {id: {in: ids}}})
DeleteMany(msgs, ids) == SelectSeq(msgs, LAMBDA m : m.id \notin ids)

\* The rows the room's deletion takes with it.
CascadeMessages(msgs, r) == SelectSeq(msgs, LAMBDA m : m.roomId # r)

\* db.message.create given the content as the client sent it.
NewRowRaw(id, content, c, r) ==
    [id |-> id, content |-> content, userId |-> UserIdOf(c), roomId |-> r,
     createdAt |-> id]

\* The row db.message.create inserts: data {content: content.trim(),
\* userId: ws.data.userId, roomId}, id and createdAt from the store.
NewRow(id, content, c, r) ==
    [id |-> id, content |-> Trim(content), userId |-> UserIdOf(c), roomId |-> r,
     createdAt |-> id]

\* ---------------------------------------------------------------- handlers

\* A suspended handler: its position, its arguments and the results of the
\* store calls it has awaited.  `seen` is not program state: it records the
\* rows the room held when the store served the handler's query (joinRoom) or
\* just before it inserted the handler's row (sendMessage).
Handler(pc, c, r) ==
    [pc |-> pc, conn |-> c, room |-> r, content |-> <<>>, rows |-> <<>>,
     ids |-> {}, user |-> "-", seen |-> <<>>]

Suspended == BagToSet(handlers)

At(h, pc) == h \in Suspended /\ h.pc = pc

CanStart == started < MaxHandlers

Start(h) ==
    /\ handlers' = handlers (+) SetToBag({h})
    /\ started' = started + 1

Resume(h, g) ==
    /\ handlers' = (handlers (-) SetToBag({h})) (+) SetToBag({g})
    /\ UNCHANGED started

Finish(h) ==
    /\ handlers' = handlers (-) SetToBag({h})
    /\ UNCHANGED started

\* The step taken last: its name, its connection and room, the rooms and the
\* registry it started from and, for a step that ends or resumes a handler,
\* the handler's content, its `seen` and the row it created.
Ev(op, c, r) ==
    [op |-> op, conn |-> c, room |-> r, prevRoomId |-> roomId,
     prevRegistry |-> roomConnections, content |-> <<>>, seen |-> <<>>,
     created |-> <<>>]

EvOf(op, h) ==
    [Ev(op, h.conn, h.room) EXCEPT !.content = h.content, !.seen = h.seen,
                                   !.created = h.rows]

\* ---------------------------------------------------------------- leaveRoom

\* leaveRoom without its `size === 0` deletion of the entry.
LeaveRegistryNoPrune(c) ==
    LET r == roomId[c] IN
    IF r = NoRoom \/ r \notin DOMAIN roomConnections THEN roomConnections
    ELSE [roomConnections EXCEPT ![r] = @ \ {c}]

\* The registry after leaveRoom(ws): ws removed from the set of its room, the
\* entry deleted when the set became empty.
LeaveRegistry(c) ==
    LET r == roomId[c] IN
    IF r = NoRoom \/ r \notin DOMAIN roomConnections THEN roomConnections
    ELSE LET rest == roomConnections[r] \ {c} IN
         IF rest = {} THEN RemoveKey(roomConnections, r)
         ELSE [roomConnections EXCEPT ![r] = rest]

\* leaveRoom without its `if (!roomId) return`.
LeaveFramesUnguarded(c) ==
    Broadcast(roomConnections, c, roomId[c], UserLeft(UsernameOf(c)))
    \o Send(c, RoomLeft)

\* leaveRoom without its final send of ROOM_LEFT.
LeaveFramesNoRoomLeft(c) ==
    LET r == roomId[c] IN
    IF r = NoRoom THEN <<>>
    ELSE Broadcast(roomConnections, c, r, UserLeft(UsernameOf(c)))

\* What leaveRoom(ws) sends: USER_LEFT to the others, then ROOM_LEFT to ws.
LeaveFrames(c) ==
    LET r == roomId[c] IN
    IF r = NoRoom THEN <<>>
    ELSE Broadcast(roomConnections, c, r, UserLeft(UsernameOf(c)))
         \o Send(c, RoomLeft)

\* leaveRoom without its `ws.data.roomId = null`.
LeaveRoomKeepsRoomId(c) ==
    /\ roomId' = roomId
    /\ roomConnections' = LeaveRegistry(c)

\* leaveRoom(ws)
LeaveRoom(c) ==
    /\ roomId' = [roomId EXCEPT ![c] = NoRoom]
    /\ roomConnections' = LeaveRegistry(c)

\* ------------------------------------------------------------------ actions

\* The registry that completed joins leave behind when they put each
\* connection into room rooms[c].
RegistryOf(rooms) ==
    [r \in { rooms[c] : c \in Conns } \ {NoRoom} |-> { c \in Conns : rooms[c] = r }]

\* The server with an existing store, no handler in flight, and its
\* connections either not yet upgraded or open and left by earlier, completed
\* joins in a room or in none.
InitHub ==
    /\ connState \in [Conns -> {"new", "open"}]
    /\ roomId \in [Conns -> RoomIds \cup {NoRoom}]
    /\ \A c \in Conns : connState[c] = "new" => roomId[c] = NoRoom
    /\ roomConnections = RegistryOf(roomId)
    /\ dbRooms = RoomIds
    /\ dbMessages = [i \in 1..HISTORY_TAKE |-> NewRow(i, <<"h", "i">>, "a", "r1")]
    /\ nextMsgId = HISTORY_TAKE + 1
    /\ handlers = EmptyBag
    /\ started = 0
    /\ event = Ev("init", "-", NoRoom)
    /\ log = <<>>
    /\ inbox = [c \in Conns |-> <<>>]
    /\ sent = <<>>

\* The hub alone: its clients are not followed.
Init == InitHub /\ currentRoomId = [c \in Conns |-> NoRoom]

\* The hub and its clients, each client having followed its connection's
\* earlier joins.
InitClient == InitHub /\ currentRoomId = roomId

\* An upgrade request that authenticates: server.upgrade with data {userId,
\* username, roomId: null}; handleOpen.
Connect(c, t) ==
    /\ connState[c] = "new"
    /\ AuthenticateWebSocket(t).ok
    /\ connState' = [connState EXCEPT ![c] = "open"]
    /\ roomId' = [roomId EXCEPT ![c] = NoRoom]
    /\ event' = [Ev("Connect", c, NoRoom) EXCEPT !.content = <<t>>]
    /\ sent' = <<>>
    /\ UNCHANGED <<roomConnections, dbRooms, dbMessages, nextMsgId, handlers, started>>

\* An upgrade request that does not authenticate: answered 401, no upgrade.
ConnectRefused(c, t) ==
    /\ connState[c] = "new"
    /\ ~AuthenticateWebSocket(t).ok
    /\ event' = [Ev("ConnectRefused", c, NoRoom) EXCEPT !.content = <<t>>]
    /\ sent' = <<>>
    /\ UNCHANGED <<connState, roomId, roomConnections, dbRooms, dbMessages,
                   nextMsgId, handlers, started>>

\* handleClose(ws)
HandleClose(c) ==
    /\ connState[c] = "open"
    /\ connState' = [connState EXCEPT ![c] = "closed"]
    /\ LeaveRoom(c)
    /\ sent' = LeaveFrames(c)
    /\ event' = Ev("HandleClose", c, roomId[c])
    /\ UNCHANGED <<dbRooms, dbMessages, nextMsgId, handlers, started>>

\* handleClose(ws) run once more for a connection whose close was handled.
HandleCloseAgain(c) ==
    /\ connState[c] = "closed"
    /\ LeaveRoom(c)
    /\ sent' = LeaveFrames(c)
    /\ event' = Ev("HandleCloseAgain", c, roomId[c])
    /\ UNCHANGED <<connState, dbRooms, dbMessages, nextMsgId, handlers, started>>

\* handleMessage, case "LEAVE_ROOM"
HandleLeave(c) ==
    /\ connState[c] = "open"
    /\ LeaveRoom(c)
    /\ sent' = LeaveFrames(c)
    /\ event' = Ev("HandleLeave", c, roomId[c])
    /\ UNCHANGED <<connState, dbRooms, dbMessages, nextMsgId, handlers, started>>

\* joinRoom without its leaveRoom of the current room.
JoinStartNoLeave(c, target) ==
    /\ connState[c] = "open"
    /\ CanStart
    /\ sent' = <<>>
    /\ Start(Handler("join.findRoom", c, target))
    /\ event' = Ev("JoinStart", c, target)
    /\ UNCHANGED <<connState, roomId, roomConnections, dbRooms, dbMessages, nextMsgId>>

\* joinRoom up to its first await: leaves the current room, asks for the room.
JoinStart(c, target) ==
    /\ connState[c] = "open"
    /\ CanStart
    /\ LeaveRoom(c)
    /\ sent' = LeaveFrames(c)
    /\ Start(Handler("join.findRoom", c, target))
    /\ event' = Ev("JoinStart", c, target)
    /\ UNCHANGED <<connState, dbRooms, dbMessages, nextMsgId>>

\* db.room.findUnique finds no room; joinRoom resumes with the error and ends.
JoinNotFound(h) ==
    /\ At(h, "join.findRoom")
    /\ h.room \notin dbRooms
    /\ sent' = SendError(h.conn, "Room not found")
    /\ Finish(h)
    /\ event' = Ev("JoinNotFound", h.conn, h.room)
    /\ UNCHANGED <<connState, roomId, roomConnections, dbRooms, dbMessages, nextMsgId>>

\* joinRoom asking for the room again each time the store has found it.
JoinFoundAsksAgain(h) ==
    /\ At(h, "join.findRoom")
    /\ h.room \in dbRooms
    /\ Resume(h, h)
    /\ event' = Ev("JoinFound", h.conn, h.room)
    /\ sent' = <<>>
    /\ UNCHANGED <<connState, roomId, roomConnections, dbRooms, dbMessages, nextMsgId>>

\* db.room.findUnique finds the room; joinRoom resumes and asks for the history.
JoinFound(h) ==
    /\ At(h, "join.findRoom")
    /\ h.room \in dbRooms
    /\ Resume(h, [h EXCEPT !.pc = "join.findHistory"])
    /\ event' = Ev("JoinFound", h.conn, h.room)
    /\ sent' = <<>>
    /\ UNCHANGED <<connState, roomId, roomConnections, dbRooms, dbMessages, nextMsgId>>

\* The store answers db.message.findMany of joinRoom.
DbJoinFindHistory(h) ==
    /\ At(h, "join.findHistory")
    /\ Resume(h, [h EXCEPT !.pc = "join.gotHistory",
                           !.rows = FindRecent(dbMessages, h.room),
                           !.seen = RoomMessages(dbMessages, h.room)])
    /\ event' = Ev("DbJoinFindHistory", h.conn, h.room)
    /\ sent' = <<>>
    /\ UNCHANGED <<connState, roomId, roomConnections, dbRooms, dbMessages, nextMsgId>>

\* joinRoom without its roomConnections.get(roomId).add(ws).
JoinRegistryForgets(c, r) == roomConnections

\* The registry after joinRoom tracked ws in room r.
JoinRegistry(c, r) ==
    IF r \in DOMAIN roomConnections
    THEN [roomConnections EXCEPT ![r] = @ \cup {c}]
    ELSE [x \in (DOMAIN roomConnections) \cup {r} |->
            IF x = r THEN {c} ELSE roomConnections[x]]

\* What the end of joinRoom sends: ROOM_JOINED to ws, USER_JOINED to the others.
JoinFrames(c, r, rows) ==
    Send(c, RoomJoined(r, HistoryOf(rows)))
    \o Broadcast(JoinRegistry(c, r), c, r, UserJoined(UsernameOf(c)))

\* joinRoom resumed with the history: subscribes, tracks, sends.
JoinFinish(h) ==
    /\ At(h, "join.gotHistory")
    /\ roomId' = [roomId EXCEPT ![h.conn] = h.room]
    /\ roomConnections' = JoinRegistry(h.conn, h.room)
    /\ sent' = JoinFrames(h.conn, h.room, h.rows)
    /\ Finish(h)
    /\ event' = [Ev("JoinFinish", h.conn, h.room) EXCEPT !.seen = h.seen]
    /\ UNCHANGED <<connState, dbRooms, dbMessages, nextMsgId>>

\* sendMessage without its `!roomId` test: the create is asked for anyway.
SendNotInRoomProceeds(c, content) ==
    /\ connState[c] = "open"
    /\ roomId[c] = NoRoom
    /\ CanStart
    /\ Start([Handler("send.create", c, roomId[c]) EXCEPT !.content = content])
    /\ event' = [Ev("SendStart", c, roomId[c]) EXCEPT !.content = content]
    /\ sent' = <<>>
    /\ UNCHANGED <<connState, roomId, roomConnections, dbRooms, dbMessages, nextMsgId>>

\* sendMessage testing the content before the room.
SendNotInRoomBlankFirst(c, content) ==
    /\ connState[c] = "open"
    /\ roomId[c] = NoRoom
    /\ sent' = SendError(c, IF Trim(content) = <<>> THEN "Message cannot be empty"
                                                   ELSE "Not in a room")
    /\ event' = [Ev("SendNotInRoom", c, NoRoom) EXCEPT !.content = content]
    /\ UNCHANGED <<connState, roomId, roomConnections, dbRooms, dbMessages, nextMsgId, handlers, started>>

\* sendMessage on a connection with no room.
SendNotInRoom(c, content) ==
    /\ connState[c] = "open"
    /\ roomId[c] = NoRoom
    /\ sent' = SendError(c, "Not in a room")
    /\ event' = [Ev("SendNotInRoom", c, NoRoom) EXCEPT !.content = content]
    /\ UNCHANGED <<connState, roomId, roomConnections, dbRooms, dbMessages, nextMsgId, handlers, started>>

\* sendMessage with content that trims to nothing.
SendEmpty(c, content) ==
    /\ connState[c] = "open"
    /\ roomId[c] # NoRoom
    /\ Trim(content) = <<>>
    /\ sent' = SendError(c, "Message cannot be empty")
    /\ event' = [Ev("SendEmpty", c, roomId[c]) EXCEPT !.content = content]
    /\ UNCHANGED <<connState, roomId, roomConnections, dbRooms, dbMessages, nextMsgId, handlers, started>>

\* sendMessage up to its first await: asks the store to create the message.
SendStart(c, content) ==
    /\ connState[c] = "open"
    /\ roomId[c] # NoRoom
    /\ Trim(content) # <<>>
    /\ CanStart
    /\ Start([Handler("send.create", c, roomId[c]) EXCEPT !.content = content])
    /\ event' = [Ev("SendStart", c, roomId[c]) EXCEPT !.content = content]
    /\ sent' = <<>>
    /\ UNCHANGED <<connState, roomId, roomConnections, dbRooms, dbMessages, nextMsgId>>

\* The store executes db.message.create.
DbCreateMessage(h) ==
    LET row == NewRow(nextMsgId, h.content, h.conn, h.room) IN
    /\ At(h, "send.create")
    /\ h.room \in dbRooms
    /\ dbMessages' = Append(dbMessages, row)
    /\ nextMsgId' = nextMsgId + 1
    /\ Resume(h, [h EXCEPT !.pc = "send.created", !.rows = <<row>>,
                           !.seen = RoomMessages(dbMessages, h.room)])
    /\ event' = [Ev("DbCreateMessage", h.conn, h.room) EXCEPT
                    !.content = h.content, !.created = <<row>>,
                    !.seen = RoomMessages(dbMessages, h.room)]
    /\ sent' = <<>>
    /\ UNCHANGED <<connState, roomId, roomConnections, dbRooms>>

\* The store rejects db.message.create, the room of the row being gone; the
\* exception surfaces in the catch of handleMessage.
SendThrew(h) ==
    /\ At(h, "send.create")
    /\ h.room \notin dbRooms
    /\ sent' = SendError(h.conn, "Invalid message format")
    /\ Finish(h)
    /\ event' = Ev("SendThrew", h.conn, h.room)
    /\ UNCHANGED <<connState, roomId, roomConnections, dbRooms, dbMessages, nextMsgId>>

\* sendMessage broadcasting with broadcast(ws, ...), which skips the sender.
SendFramesToOthers(r, row) ==
    IF r \notin DOMAIN roomConnections THEN <<>>
    ELSE Emit({ c \in roomConnections[r] : UserIdOf(c) # row.userId },
              NewMessage(MessageData(row)))

\* What sendMessage broadcasts once the row is created.
SendFrames(r, row) == BroadcastToRoom(roomConnections, r, NewMessage(MessageData(row)))

\* sendMessage resumed with the row: broadcasts it, then cleanupOldMessages
\* asks for the rows beyond the newest 50.
SendBroadcast(h) ==
    /\ At(h, "send.created")
    /\ sent' = SendFrames(h.room, h.rows[1])
    /\ Resume(h, [h EXCEPT !.pc = "cleanup.find"])
    /\ event' = EvOf("SendBroadcast", h)
    /\ UNCHANGED <<connState, roomId, roomConnections, dbRooms, dbMessages, nextMsgId>>

\* db.message.findMany of cleanupOldMessages finds nothing; sendMessage ends.
CleanupNothing(h) ==
    /\ At(h, "cleanup.find")
    /\ FindOld(dbMessages, h.room) = {}
    /\ Finish(h)
    /\ event' = EvOf("CleanupNothing", h)
    /\ sent' = <<>>
    /\ UNCHANGED <<connState, roomId, roomConnections, dbRooms, dbMessages, nextMsgId>>

\* db.message.findMany of cleanupOldMessages finds old rows; cleanupOldMessages
\* resumes and asks the store to delete them.
CleanupFound(h) ==
    /\ At(h, "cleanup.find")
    /\ FindOld(dbMessages, h.room) # {}
    /\ Resume(h, [h EXCEPT !.pc = "cleanup.delete", !.ids = FindOld(dbMessages, h.room)])
    /\ event' = EvOf("CleanupFound", h)
    /\ sent' = <<>>
    /\ UNCHANGED <<connState, roomId, roomConnections, dbRooms, dbMessages, nextMsgId>>

\* The store executes db.message.deleteMany; sendMessage has nothing left to do.
DbDeleteMany(h) ==
    /\ At(h, "cleanup.delete")
    /\ dbMessages' = DeleteMany(dbMessages, h.ids)
    /\ Finish(h)
    /\ event' = EvOf("DbDeleteMany", h)
    /\ sent' = <<>>
    /\ UNCHANGED <<connState, roomId, roomConnections, dbRooms, nextMsgId>>

\* ------------------------------------------------------------- room deletion

\* handleDeleteRoom answering 401 to a request without a payload.
DeleteUnauthorized(t, r) ==
    /\ ~DeletePayload(t).ok
    /\ event' = [Ev("DeleteUnauthorized", "-", r) EXCEPT !.content = <<"401", t>>]
    /\ sent' = <<>>
    /\ UNCHANGED <<connState, roomId, roomConnections, dbRooms, dbMessages,
                   nextMsgId, handlers, started>>

\* handleDeleteRoom up to its first await, for a request with a valid token.
DeleteStart(t, r) ==
    /\ CanStart
    /\ r \in dbRooms
    /\ DeletePayload(t).ok
    /\ Start([Handler("delete.findRoom", "-", r) EXCEPT !.user = DeletePayload(t).userId])
    /\ event' = [Ev("DeleteStart", "-", r) EXCEPT !.content = <<"pending", t>>]
    /\ sent' = <<>>
    /\ UNCHANGED <<connState, roomId, roomConnections, dbRooms, dbMessages, nextMsgId>>

\* db.room.findUnique answers; handleDeleteRoom resumes with 404 without the
\* room and 403 for anyone but its creator.
DeleteRefused(h) ==
    /\ At(h, "delete.findRoom")
    /\ h.room \notin dbRooms \/ CreatorOf(h.room) # h.user
    /\ Finish(h)
    /\ event' = [Ev("DeleteRefused", "-", h.room) EXCEPT
                    !.content = <<IF h.room \notin dbRooms THEN "404" ELSE "403", h.user>>]
    /\ sent' = <<>>
    /\ UNCHANGED <<connState, roomId, roomConnections, dbRooms, dbMessages, nextMsgId>>

\* db.room.findUnique answers; handleDeleteRoom resumes for the creator,
\* broadcasts ROOM_DELETED and asks the store to delete the room.
DeleteBroadcast(h) ==
    /\ At(h, "delete.findRoom")
    /\ h.room \in dbRooms /\ CreatorOf(h.room) = h.user
    /\ sent' = BroadcastToRoom(roomConnections, h.room, RoomDeleted(h.room))
    /\ Resume(h, [h EXCEPT !.pc = "delete.delete"])
    /\ event' = [Ev("DeleteBroadcast", "-", h.room) EXCEPT !.content = <<"pending", h.user>>]
    /\ UNCHANGED <<connState, roomId, roomConnections, dbRooms, dbMessages, nextMsgId>>

\* The store executes db.room.delete; the handler has only its response left.
DbDeleteRoom(h) ==
    /\ At(h, "delete.delete")
    /\ dbRooms' = dbRooms \ {h.room}
    /\ dbMessages' = CascadeMessages(dbMessages, h.room)
    /\ Finish(h)
    /\ event' = [Ev("DbDeleteRoom", "-", h.room) EXCEPT !.content = <<"200", h.user>>]
    /\ sent' = <<>>
    /\ UNCHANGED <<connState, roomId, roomConnections, nextMsgId>>

\* ------------------------------------------------------------ specification

\* A socket that puts each frame in front of those it was given before.
DeliverFirst(box, n) == <<n>> \o box

\* ws.send(frame) on one socket: the frame goes out after those sent before.
Deliver(box, n) == Append(box, n)

RECURSIVE DeliverAll(_, _)
\* The sends of one step to one socket, in the order of the calls.
DeliverAll(box, ns) ==
    IF ns = <<>> THEN box ELSE DeliverAll(Deliver(box, Head(ns)), Tail(ns))

\* The room events among the frames of a step, each with its place in log.
Numbered(frames, from) ==
    LET evs == SelectSeq(frames, LAMBDA e : e.frame.type \in RoomEvents) IN
    [i \in 1..Len(evs) |-> [n |-> from + i, to |-> evs[i].to, frame |-> evs[i].frame]]

\* The step's room events are added to log and to the sockets they went to.
Record ==
    LET new == Numbered(sent', Len(log)) IN
    /\ log' = log \o new
    /\ inbox' = [c \in Conns |->
                   DeliverAll(inbox[c],
                              Map(SelectSeq(new, LAMBDA e : c \in e.to), LAMBDA e : e.n))]
    /\ UNCHANGED currentRoomId

\* The step is not recorded.
Quiet == UNCHANGED <<log, inbox, currentRoomId>>

Next ==
    \/ \E c \in Conns : \E t \in TokensFor(c) : Connect(c, t) /\ Quiet
    \/ \E c \in Conns : \E t \in TokensFor(c) : ConnectRefused(c, t) /\ Quiet
    \/ \E c \in Conns : HandleClose(c) /\ Quiet
    \/ \E c \in Conns : HandleCloseAgain(c) /\ Quiet
    \/ \E c \in Conns : HandleLeave(c) /\ Quiet
    \/ \E c \in Conns, r \in RoomIds : JoinStart(c, r) /\ Quiet
    \/ \E h \in Suspended : JoinNotFound(h) /\ Quiet
    \/ \E h \in Suspended : JoinFound(h) /\ Quiet
    \/ \E h \in Suspended : DbJoinFindHistory(h) /\ Quiet
    \/ \E h \in Suspended : JoinFinish(h) /\ Quiet
    \/ \E c \in Conns, t \in Contents : SendNotInRoom(c, t) /\ Quiet
    \/ \E c \in Conns, t \in Contents : SendEmpty(c, t) /\ Quiet
    \/ \E c \in Conns, t \in Contents : SendStart(c, t) /\ Quiet
    \/ \E h \in Suspended : DbCreateMessage(h) /\ Quiet
    \/ \E h \in Suspended : SendThrew(h) /\ Quiet
    \/ \E h \in Suspended : SendBroadcast(h) /\ Quiet
    \/ \E h \in Suspended : CleanupNothing(h) /\ Quiet
    \/ \E h \in Suspended : CleanupFound(h) /\ Quiet
    \/ \E h \in Suspended : DbDeleteMany(h) /\ Quiet
    \/ \E t \in DeleteTokens, r \in RoomIds : DeleteStart(t, r) /\ Quiet
    \/ \E h \in Suspended : DeleteRefused(h) /\ Quiet
    \/ \E h \in Suspended : DeleteBroadcast(h) /\ Quiet
    \/ \E h \in Suspended : DbDeleteRoom(h) /\ Quiet

Spec == Init /\ [][Next]_vars

NextOrder ==
    \/ \E c \in Conns : \E t \in TokensFor(c) : Connect(c, t) /\ Record
    \/ \E c \in Conns : \E t \in TokensFor(c) : ConnectRefused(c, t) /\ Record
    \/ \E c \in Conns : HandleClose(c) /\ Record
    \/ \E c \in Conns : HandleCloseAgain(c) /\ Record
    \/ \E c \in Conns : HandleLeave(c) /\ Record
    \/ \E c \in Conns, r \in RoomIds : JoinStart(c, r) /\ Record
    \/ \E h \in Suspended : JoinNotFound(h) /\ Record
    \/ \E h \in Suspended : JoinFound(h) /\ Record
    \/ \E h \in Suspended : DbJoinFindHistory(h) /\ Record
    \/ \E h \in Suspended : JoinFinish(h) /\ Record
    \/ \E c \in Conns, t \in Contents : SendNotInRoom(c, t) /\ Record
    \/ \E c \in Conns, t \in Contents : SendEmpty(c, t) /\ Record
    \/ \E c \in Conns, t \in Contents : SendStart(c, t) /\ Record
    \/ \E h \in Suspended : DbCreateMessage(h) /\ Record
    \/ \E h \in Suspended : SendThrew(h) /\ Record
    \/ \E h \in Suspended : SendBroadcast(h) /\ Record
    \/ \E h \in Suspended : CleanupNothing(h) /\ Record
    \/ \E h \in Suspended : CleanupFound(h) /\ Record
    \/ \E h \in Suspended : DbDeleteMany(h) /\ Record
    \/ \E t \in DeleteTokens, r \in RoomIds : DeleteStart(t, r) /\ Record
    \/ \E h \in Suspended : DeleteRefused(h) /\ Record
    \/ \E h \in Suspended : DeleteBroadcast(h) /\ Record
    \/ \E h \in Suspended : DbDeleteRoom(h) /\ Record

\* The hub with its room events recorded as sent and as received.
SpecOrder == Init /\ [][NextOrder]_vars

\* ------------------------------------------------------- frames of no command

\* Texts a client may send that carry none of the three commands: text that
\* is not JSON, the JSON value null, and a JSON object of another type (a JSON
\* number or string reads as one: its `type` is undefined).
BadFrames == {"notJson", "null", "unknownType"}

\* JSON.parse(message.toString()) throws a SyntaxError.
ParseThrows(f) == f = "notJson"

\* Reading data.type throws a TypeError.
TypeThrows(f) == f = "null"

\* handleMessage answering every frame through its default branch.
FrameErrorUnknownOnly(f) == "Unknown message type"

\* What handleMessage answers: the catch for a throw inside the try, the
\* default branch of the switch otherwise.
FrameError(f) ==
    IF ParseThrows(f) \/ TypeThrows(f) THEN "Invalid message format"
    ELSE "Unknown message type"

\* handleMessage on a frame of no command.
HandleBadFrame(c, f) ==
    /\ connState[c] = "open"
    /\ sent' = SendError(c, FrameError(f))
    /\ event' = [Ev("HandleBadFrame", c, roomId[c]) EXCEPT !.content = <<f>>]
    /\ UNCHANGED <<connState, roomId, roomConnections, dbRooms, dbMessages,
                   nextMsgId, handlers, started>>

NextFrames ==
    \/ Next
    \/ \E c \in Conns, f \in BadFrames : HandleBadFrame(c, f) /\ Quiet

\* The hub with clients that also send frames of no command.
SpecFrames == Init /\ [][NextFrames]_vars

\* ------------------------------------------------------------- store failures

\* A store call of joinRoom rejects (the store is unavailable); the exception
\* leaves joinRoom and the catch of handleMessage answers it.
JoinStoreFails(h) ==
    /\ h \in Suspended
    /\ h.pc \in {"join.findRoom", "join.findHistory"}
    /\ sent' = SendError(h.conn, "Invalid message format")
    /\ Finish(h)
    /\ event' = EvOf("JoinStoreFails", h)
    /\ UNCHANGED <<connState, roomId, roomConnections, dbRooms, dbMessages, nextMsgId>>

\* A store call of sendMessage or of its cleanupOldMessages rejects; the
\* exception leaves sendMessage and the catch of handleMessage answers it.
SendStoreFails(h) ==
    /\ h \in Suspended
    /\ h.pc \in {"send.create", "cleanup.find", "cleanup.delete"}
    /\ sent' = SendError(h.conn, "Invalid message format")
    /\ Finish(h)
    /\ event' = EvOf("SendStoreFails", h)
    /\ UNCHANGED <<connState, roomId, roomConnections, dbRooms, dbMessages, nextMsgId>>

NextStoreFails ==
    \/ Next
    \/ \E h \in Suspended : JoinStoreFails(h) /\ Quiet
    \/ \E h \in Suspended : SendStoreFails(h) /\ Quiet

\* The hub with a store whose calls may fail.
SpecStoreFails == Init /\ [][NextStoreFails]_vars

\* ------------------------------------------------------------ delete requests

NextDelete ==
    \/ Next
    \/ \E t \in DeleteTokens, r \in RoomIds : DeleteUnauthorized(t, r) /\ Quiet

\* The hub with delete requests of every kind of Authorization header.
SpecDelete == Init /\ [][NextDelete]_vars

\* ------------------------------------------------------------------- progress

\* A step that resumes or ends the suspended handler h: the store answers
\* its call or fails it, and the handler runs to its next await or to its end.
HandlerStep(h) ==
    \/ JoinNotFound(h) /\ Quiet
    \/ JoinFound(h) /\ Quiet
    \/ DbJoinFindHistory(h) /\ Quiet
    \/ JoinFinish(h) /\ Quiet
    \/ DbCreateMessage(h) /\ Quiet
    \/ SendThrew(h) /\ Quiet
    \/ SendBroadcast(h) /\ Quiet
    \/ CleanupNothing(h) /\ Quiet
    \/ CleanupFound(h) /\ Quiet
    \/ DbDeleteMany(h) /\ Quiet
    \/ DeleteRefused(h) /\ Quiet
    \/ DeleteBroadcast(h) /\ Quiet
    \/ DbDeleteRoom(h) /\ Quiet
    \/ JoinStoreFails(h) /\ Quiet
    \/ SendStoreFails(h) /\ Quiet

\* Every store call returns or fails and every resumed handler is run: while
\* a handler is suspended, one of the suspended handlers is served.
Fairness == WF_vars(\E h \in Suspended : HandlerStep(h))

\* Two open connections, one of them in the room that has a history.
InitLive ==
    /\ InitHub
    /\ connState = [c \in Conns |-> "open"]
    /\ roomId = [c \in Conns |-> IF c = "a" THEN "r1" ELSE NoRoom]
    /\ currentRoomId = [c \in Conns |-> NoRoom]

\* The requests that suspend a handler, the steps that serve one, and the
\* LEAVE_ROOM and close that may come in between.
NextLive ==
    \/ \E c \in Conns : HandleClose(c) /\ Quiet
    \/ \E c \in Conns : HandleLeave(c) /\ Quiet
    \/ \E c \in Conns, r \in RoomIds : JoinStart(c, r) /\ Quiet
    \/ \E h \in Suspended : JoinNotFound(h) /\ Quiet
    \/ \E h \in Suspended : JoinFound(h) /\ Quiet
    \/ \E h \in Suspended : DbJoinFindHistory(h) /\ Quiet
    \/ \E h \in Suspended : JoinFinish(h) /\ Quiet
    \/ \E c \in Conns, t \in Contents : SendStart(c, t) /\ Quiet
    \/ \E h \in Suspended : DbCreateMessage(h) /\ Quiet
    \/ \E h \in Suspended : SendThrew(h) /\ Quiet
    \/ \E h \in Suspended : SendBroadcast(h) /\ Quiet
    \/ \E h \in Suspended : CleanupNothing(h) /\ Quiet
    \/ \E h \in Suspended : CleanupFound(h) /\ Quiet
    \/ \E h \in Suspended : DbDeleteMany(h) /\ Quiet
    \/ \E t \in DeleteTokens, r \in RoomIds : DeleteStart(t, r) /\ Quiet
    \/ \E h \in Suspended : DeleteRefused(h) /\ Quiet
    \/ \E h \in Suspended : DeleteBroadcast(h) /\ Quiet
    \/ \E h \in Suspended : DbDeleteRoom(h) /\ Quiet
    \/ \E h \in Suspended : JoinStoreFails(h) /\ Quiet
    \/ \E h \in Suspended : SendStoreFails(h) /\ Quiet

\* The hub with a store whose calls return or fail, under that scheduling.
SpecLive == InitLive /\ [][NextLive]_vars /\ Fairness

\* ------------------------------------------------------------------ the client

\* ws.onmessage of useWebSocket, as far as currentRoomId goes.
ClientOnMessage(cur, frame) ==
    CASE frame.type = "ROOM_JOINED" -> frame.roomId
      [] frame.type = "ROOM_LEFT" -> NoRoom
      [] frame.type = "ROOM_DELETED" -> IF frame.roomId = cur THEN NoRoom ELSE cur
      [] OTHER -> cur

RECURSIVE ClientOnMessages(_, _)
\* The frames one step sent to a client, handled in the order of the sends.
ClientOnMessages(cur, frames) ==
    IF frames = <<>> THEN cur
    ELSE ClientOnMessages(ClientOnMessage(cur, Head(frames)), Tail(frames))

\* The clients take the step's frames at once (none stays in flight);
\* ws.onclose resets currentRoomId, and a socket that is not open gets nothing.
Client ==
    /\ UNCHANGED <<log, inbox>>
    /\ currentRoomId' = [c \in Conns |->
          IF connState'[c] # "open" THEN NoRoom
          ELSE ClientOnMessages(currentRoomId[c],
                   Map(SelectSeq(sent', LAMBDA e : c \in e.to), LAMBDA e : e.frame))]

NextClient ==
    \/ \E c \in Conns : \E t \in TokensFor(c) : Connect(c, t) /\ Client
    \/ \E c \in Conns : \E t \in TokensFor(c) : ConnectRefused(c, t) /\ Client
    \/ \E c \in Conns : HandleClose(c) /\ Client
    \/ \E c \in Conns : HandleCloseAgain(c) /\ Client
    \/ \E c \in Conns : HandleLeave(c) /\ Client
    \/ \E c \in Conns, r \in RoomIds : JoinStart(c, r) /\ Client
    \/ \E h \in Suspended : JoinNotFound(h) /\ Client
    \/ \E h \in Suspended : JoinFound(h) /\ Client
    \/ \E h \in Suspended : DbJoinFindHistory(h) /\ Client
    \/ \E h \in Suspended : JoinFinish(h) /\ Client
    \/ \E c \in Conns, t \in Contents : SendNotInRoom(c, t) /\ Client
    \/ \E c \in Conns, t \in Contents : SendEmpty(c, t) /\ Client
    \/ \E c \in Conns, t \in Contents : SendStart(c, t) /\ Client
    \/ \E h \in Suspended : DbCreateMessage(h) /\ Client
    \/ \E h \in Suspended : SendThrew(h) /\ Client
    \/ \E h \in Suspended : SendBroadcast(h) /\ Client
    \/ \E h \in Suspended : CleanupNothing(h) /\ Client
    \/ \E h \in Suspended : CleanupFound(h) /\ Client
    \/ \E h \in Suspended : DbDeleteMany(h) /\ Client
    \/ \E t \in DeleteTokens, r \in RoomIds : DeleteStart(t, r) /\ Client
    \/ \E h \in Suspended : DeleteRefused(h) /\ Client
    \/ \E h \in Suspended : DeleteBroadcast(h) /\ Client
    \/ \E h \in Suspended : DbDeleteRoom(h) /\ Client

\* The hub together with the client hook of each connection.
SpecClient == InitClient /\ [][NextClient]_vars

\* ------------------------------------------------------------------ claims

\* The rooms whose member set holds connection c.
RoomsOf(c) == { r \in DOMAIN roomConnections : c \in roomConnections[r] }

\* The suspended handlers of connection c.
InFlight(c) == { h \in Suspended : h.conn = c }

\* C1: in every reachable state each connection is in at most one room's
\* member set of roomConnections.
C1_AtMostOneRoom == \A c \in Conns : Cardinality(RoomsOf(c)) <= 1

\* C2: in every reachable state, for every connection c and room r, c is in
\* roomConnections[r] if and only if c's data.roomId is r.
C2_LockStep ==
    \A c \in Conns : \A r \in RoomIds : (r \in RoomsOf(c)) <=> (roomId[c] = r)

\* C3: between handler steps the registry has an entry for a room if and only
\* if the room's member set is non-empty: no entry holds an empty set (a room
\* without an entry has no members).
C3_NoEmptyEntry == \A r \in DOMAIN roomConnections : roomConnections[r] # {}

\* C3's case: the last member of a room has just left and the entry is gone.
C3_Witness ==
    /\ event.op = "HandleLeave"
    /\ event.room # NoRoom
    /\ event.room \in DOMAIN event.prevRegistry
    /\ event.prevRegistry[event.room] = {event.conn}
    /\ event.room \notin DOMAIN roomConnections

\* C4: once a connection's close has been handled and no handler of the
\* connection is in flight any more, the connection is in no member set.
C4_ClosedIsNowhere ==
    \A c \in Conns :
        (connState[c] = "closed" /\ InFlight(c) = {}) => RoomsOf(c) = {}

\* C5 as claimed: a JOIN_ROOM for a room that is not in the store changes no
\* connection's room and no member set and sends nothing to anyone but the
\* error "Room not found" to the requester.
C5_MissingRoomChangesNothing ==
    /\ (event.op = "JoinStart" /\ event.room \notin dbRooms) =>
          /\ roomId = event.prevRoomId
          /\ roomConnections = event.prevRegistry
          /\ sent = <<>>
    /\ event.op = "JoinNotFound" =>
          /\ roomId = event.prevRoomId
          /\ roomConnections = event.prevRegistry
          /\ sent = << [to |-> {event.conn},
                        frame |-> [type |-> "ERROR", message |-> "Room not found"]] >>

\* The members a registry lists for room r.
MembersIn(rc, r) == IF r \in DOMAIN rc THEN rc[r] ELSE {}

\* C6: a JOIN_ROOM that succeeds puts the connection into the target's member
\* set, sets its room to the target, sends it ROOM_JOINED for the target first,
\* and sends USER_JOINED with its username to exactly the connections that
\* were the target's other members, and to nobody when there are none.
C6_JoinDelivers ==
    event.op = "JoinFinish" =>
        LET c == event.conn
            r == event.room
            others == MembersIn(event.prevRegistry, r) \ {c}
        IN  /\ MembersIn(roomConnections, r) = others \cup {c}
            /\ roomId[c] = r
            /\ Len(sent) >= 1
            /\ sent[1].to = {c}
            /\ sent[1].frame.type = "ROOM_JOINED"
            /\ sent[1].frame.roomId = r
            /\ IF others = {} THEN Len(sent) = 1
               ELSE /\ Len(sent) = 2
                    /\ sent[2] = [to |-> others,
                                  frame |-> [type |-> "USER_JOINED",
                                             username |-> UsernameOf(c)]]

\* C6's case: a join into a room that had another member.
C6_Witness ==
    /\ event.op = "JoinFinish"
    /\ MembersIn(event.prevRegistry, event.room) \ {event.conn} # {}
    /\ Len(sent) = 2

\* C7: the history in ROOM_JOINED is, of the k rows the room held when the
\* store served the history query, the min(k, 50) newest, oldest first.
C7_History ==
    event.op = "JoinFinish" =>
        LET stored == event.seen
            k == Len(stored)
            n == IF k <= 50 THEN k ELSE 50
            hist == sent[1].frame.messages
        IN  /\ Len(hist) = n
            /\ \A i \in 1..n :
                  /\ hist[i].id = stored[k - n + i].id
                  /\ hist[i].content = stored[k - n + i].content
                  /\ hist[i].username = UsernameOfUser(stored[k - n + i].userId)
            /\ \A i \in 1..(n - 1) : hist[i].id < hist[i + 1].id

\* C7's case: a join whose query found more than 50 rows.
C7_Witness ==
    /\ event.op = "JoinFinish"
    /\ Len(event.seen) > 50
    /\ Len(sent[1].frame.messages) = 50

\* The sendMessage handlers in flight for room r.
SendsInFlight(r) ==
    { h \in Suspended :
        /\ h.room = r
        /\ h.pc \in {"send.create", "send.created", "cleanup.find", "cleanup.delete"} }

\* C8: whenever no sendMessage is in flight for a room, the store holds at
\* most 50 messages of the room.
C8_AtMostFiftyAtRest ==
    \A r \in RoomIds :
        SendsInFlight(r) = {} => Len(RoomMessages(dbMessages, r)) <= 50

\* C8's case: a send that was created on top of another send's untrimmed row
\* has finished its cleanup, and the room is at rest.
C8_Witness ==
    /\ event.op = "DbDeleteMany"
    /\ Len(event.seen) = 51
    /\ SendsInFlight(event.room) = {}
    /\ Len(RoomMessages(dbMessages, event.room)) = 50

\* A send has completed that found its room with exactly 50 rows, with no
\* other message created since its own and the room still in the store.
C9_Case ==
    /\ event.op \in {"DbDeleteMany", "CleanupNothing"}
    /\ Len(event.seen) = 50
    /\ event.room \in dbRooms
    /\ nextMsgId = event.created[1].id + 1

\* C9: when a send completes on a room that held exactly 50 rows, the room
\* holds exactly 50: the 49 newest of those, then the new row.
C9_FiftyFirst ==
    C9_Case =>
        LET now == RoomMessages(dbMessages, event.room) IN
        /\ Len(now) = 50
        /\ now[50] = event.created[1]
        /\ \A i \in 1..49 : now[i] = event.seen[i + 1]

\* C9's case has happened, by the deletion of the oldest row.
C9_Witness == C9_Case /\ event.op = "DbDeleteMany"

\* The row of a successful create is the one new row of its room: the trimmed,
\* non-blank content, the sender's user and the room the sender was in.
C10_Persisted ==
    event.op = "DbCreateMessage" =>
        LET row == event.created[1] IN
        /\ RoomMessages(dbMessages, event.room) = Append(event.seen, row)
        /\ row.content = Trim(event.content)
        /\ row.content # <<>>
        /\ Head(row.content) # " "
        /\ row.content[Len(row.content)] # " "
        /\ row.userId = UserIdOf(event.conn)
        /\ row.roomId = event.room

\* The NEW_MESSAGE frame of the row the resumed sendMessage created.
C10_Frame ==
    LET row == event.created[1] IN
    [type |-> "NEW_MESSAGE",
     message |-> [id |-> row.id, content |-> row.content,
                  username |-> UsernameOf(event.conn),
                  createdAt |-> ToISOString(row.createdAt)]]

SendOps == {"SendNotInRoom", "SendEmpty", "SendStart"}

\* A content made of whitespace only.
IsBlank(s) == \A i \in 1..Len(s) : s[i] = " "

\* The one emission of an ERROR frame to connection c.
ErrorTo(c, text) == << [to |-> {c}, frame |-> [type |-> "ERROR", message |-> text]] >>

\* C11: a SEND_MESSAGE whose content is whitespace only, from a connection in
\* a room, sends ERROR "Message cannot be empty" to the sender and nothing
\* else, persists no message, starts no handler, and changes no connection's
\* room and no member set.
C11_EmptyRejected ==
    [][ (/\ event'.op \in SendOps
         /\ roomId[event'.conn] # NoRoom
         /\ IsBlank(event'.content))
        => /\ sent' = ErrorTo(event'.conn, "Message cannot be empty")
           /\ UNCHANGED <<connState, roomId, roomConnections, dbRooms,
                          dbMessages, nextMsgId, handlers, started>> ]_vars

\* C11's case: a blank SEND_MESSAGE from a connection in a room was answered.
C11_Witness ==
    /\ event.op \in SendOps
    /\ event.prevRoomId[event.conn] # NoRoom
    /\ IsBlank(event.content)
    /\ Len(event.content) > 0
    /\ sent = ErrorTo(event.conn, "Message cannot be empty")

\* C12: a SEND_MESSAGE from a connection whose room is none sends ERROR
\* "Not in a room" to the sender and nothing else, persists no message and
\* starts no handler that could.
C12_NotInRoomRejected ==
    [][ (event'.op \in SendOps /\ roomId[event'.conn] = NoRoom)
        => /\ sent' = ErrorTo(event'.conn, "Not in a room")
           /\ UNCHANGED <<connState, roomId, roomConnections, dbRooms,
                          dbMessages, nextMsgId, handlers, started>> ]_vars

\* C12's case: a non-blank SEND_MESSAGE from a connection with no room was
\* answered.
C12_Witness ==
    /\ event.op \in SendOps
    /\ event.prevRoomId[event.conn] = NoRoom
    /\ ~IsBlank(event.content)
    /\ sent = ErrorTo(event.conn, "Not in a room")

\* C13: a LEAVE_ROOM from a connection whose room is r takes it out of r's
\* member set, sets its room to none, sends USER_LEFT with its username to
\* exactly the members of r that remain and to nobody when none remains, and
\* sends ROOM_LEFT to the leaver; nobody else is sent anything.
C13_LeaveDelivers ==
    (event.op = "HandleLeave" /\ event.prevRoomId[event.conn] # NoRoom) =>
        LET c == event.conn
            r == event.prevRoomId[c]
            remain == MembersIn(event.prevRegistry, r) \ {c}
            userLeft == [to |-> remain,
                         frame |-> [type |-> "USER_LEFT", username |-> UsernameOf(c)]]
            roomLeft == [to |-> {c}, frame |-> [type |-> "ROOM_LEFT"]]
        IN  /\ MembersIn(roomConnections, r) = remain
            /\ roomId[c] = NoRoom
            /\ \A d \in Conns \ {c} : roomId[d] = event.prevRoomId[d]
            /\ sent = IF remain = {} THEN <<roomLeft>> ELSE <<userLeft, roomLeft>>

\* C13's case: a connection has left a room in which another member remains.
C13_Witness ==
    /\ event.op = "HandleLeave"
    /\ event.prevRoomId[event.conn] # NoRoom
    /\ MembersIn(roomConnections, event.prevRoomId[event.conn]) # {}
    /\ Len(sent) = 2

\* C14: a LEAVE_ROOM from a connection whose room is none emits nothing and
\* changes no state; every LEAVE_ROOM leaves the connection's room none, so a
\* LEAVE_ROOM right after a LEAVE_ROOM of the same connection emits nothing
\* and changes no state: the two emit one USER_LEFT and one ROOM_LEFT.
C14_LeaveIdempotent ==
    [][ /\ (event'.op = "HandleLeave" /\ roomId[event'.conn] = NoRoom)
           => /\ sent' = <<>>
              /\ UNCHANGED <<connState, roomId, roomConnections, dbRooms,
                             dbMessages, nextMsgId, handlers, started>>
        /\ event'.op = "HandleLeave" => roomId'[event'.conn] = NoRoom
        /\ (/\ event.op = "HandleLeave" /\ event'.op = "HandleLeave"
            /\ event.conn = event'.conn)
           => /\ sent' = <<>>
              /\ UNCHANGED <<connState, roomId, roomConnections, dbRooms,
                             dbMessages, nextMsgId, handlers, started>> ]_vars

\* C14's case: a LEAVE_ROOM from a connection with no room was handled while
\* the other connection was in a room.
C14_Witness ==
    /\ event.op = "HandleLeave"
    /\ event.prevRoomId[event.conn] = NoRoom
    /\ \E d \in Conns \ {event.conn} : roomId[d] # NoRoom
    /\ sent = <<>>

\* C15 as claimed: when the close of a connection whose room is r is handled,
\* the connection is taken out of r's member set, the members that remain are
\* sent USER_LEFT, and no ROOM_LEFT is passed to the closing connection's send.
C15_CloseSendsNoRoomLeft ==
    (event.op = "HandleClose" /\ event.prevRoomId[event.conn] # NoRoom) =>
        LET c == event.conn
            r == event.prevRoomId[c]
            remain == MembersIn(event.prevRegistry, r) \ {c}
        IN  /\ MembersIn(roomConnections, r) = remain
            /\ roomId[c] = NoRoom
            /\ remain # {} =>
                  \E i \in 1..Len(sent) :
                      sent[i] = [to |-> remain,
                                 frame |-> [type |-> "USER_LEFT",
                                            username |-> UsernameOf(c)]]
            /\ \A i \in 1..Len(sent) :
                  ~(c \in sent[i].to /\ sent[i].frame.type = "ROOM_LEFT")

\* C16: a run of the close handler directly after a run of the close handler
\* for the same connection emits nothing and changes no state; so does any
\* run of it on a connection whose room is none, which is how every run of
\* it leaves the connection.
C16_CloseIdempotent ==
    [][ /\ (/\ event.op \in {"HandleClose", "HandleCloseAgain"}
            /\ event'.op = "HandleCloseAgain"
            /\ event.conn = event'.conn)
           => /\ sent' = <<>>
              /\ UNCHANGED <<connState, roomId, roomConnections, dbRooms,
                             dbMessages, nextMsgId, handlers, started>>
        /\ (event'.op = "HandleCloseAgain" /\ roomId[event'.conn] = NoRoom)
           => /\ sent' = <<>>
              /\ UNCHANGED <<connState, roomId, roomConnections, dbRooms,
                             dbMessages, nextMsgId, handlers, started>>
        /\ event'.op \in {"HandleClose", "HandleCloseAgain"}
           => roomId'[event'.conn] = NoRoom ]_vars

\* C16's case: the close handler has run again for a connection that closed
\* while another connection was in a room.
C16_Witness ==
    /\ event.op = "HandleCloseAgain"
    /\ connState[event.conn] = "closed"
    /\ event.prevRoomId[event.conn] = NoRoom
    /\ \E d \in Conns \ {event.conn} : roomId[d] # NoRoom
    /\ sent = <<>>

\* C17: when the creator's deletion of room r goes ahead, ROOM_DELETED for r
\* is sent to exactly the connections in r's member set at that moment, and
\* nothing is sent to anyone else.
C17_DeleteNotifiesMembers ==
    event.op = "DeleteBroadcast" =>
        LET r == event.room
            members == MembersIn(event.prevRegistry, r)
        IN  /\ roomConnections = event.prevRegistry
            /\ sent = IF members = {} THEN <<>>
                      ELSE << [to |-> members,
                               frame |-> [type |-> "ROOM_DELETED", roomId |-> r]] >>

\* C17's case: a room with a member was deleted while an open connection was
\* in the other room.
C17_Witness ==
    /\ event.op = "DeleteBroadcast"
    /\ MembersIn(roomConnections, event.room) # {}
    /\ \E d \in Conns :
          /\ connState[d] = "open"
          /\ d \notin MembersIn(roomConnections, event.room)
          /\ \E x \in RoomIds \ {event.room} : d \in MembersIn(roomConnections, x)
    /\ Len(sent) = 1

\* C18 as claimed: once the store has deleted room r, no connection's room is
\* r and the registry has no entry for r.
C18_DeletedRoomCleared ==
    event.op = "DbDeleteRoom" =>
        /\ event.room \notin DOMAIN roomConnections
        /\ \A c \in Conns : roomId[c] # event.room

\* C19 as claimed: a SEND_MESSAGE from a connection that is in the member set
\* of a room the store no longer has, and whose room is still that room (no
\* JOIN_ROOM or LEAVE_ROOM of it was handled since), is answered with ERROR
\* "Not in a room" and starts no create.
C19_SendAfterDeleteRejected ==
    (/\ event.op \in SendOps
     /\ ~IsBlank(event.content)
     /\ \E r \in RoomIds \ dbRooms :
           /\ event.prevRoomId[event.conn] = r
           /\ event.conn \in MembersIn(event.prevRegistry, r))
    => /\ sent = ErrorTo(event.conn, "Not in a room")
       /\ \A h \in InFlight(event.conn) : h.pc # "send.create"

\* C20 as claimed: the store deletes a room only after ROOM_DELETED was
\* broadcast for it, and no joinRoom puts a connection into the member set of
\* a room between that broadcast and the store's deletion.
C20_NoJoinAfterNotice ==
    /\ event.op = "DbDeleteRoom" => event.room \notin dbRooms
    /\ event.op = "JoinFinish" =>
          \A h \in Suspended : ~(h.pc = "delete.delete" /\ h.room = event.room)

\* C21 as claimed: a member to which a broadcast could not deliver, its
\* connection being closed, is no longer in any member set once the broadcast
\* is done.
C21_FailedMemberPruned ==
    \A i \in 1..Len(sent) :
        sent[i].frame.type \in RoomEvents =>
            \A c \in sent[i].to : connState[c] = "closed" => RoomsOf(c) = {}

\* How many frames of a type the last step sent to connection c.
Received(c, type) ==
    Cardinality({ i \in 1..Len(sent) : c \in sent[i].to /\ sent[i].frame.type = type })

\* The steps that run leaveRoom.
LeaveOps == {"HandleLeave", "HandleClose", "HandleCloseAgain", "JoinStart"}

\* The room whose members the last step's broadcast enumerated.
BroadcastRoom ==
    IF event.op \in LeaveOps THEN event.prevRoomId[event.conn] ELSE event.room

\* The members a broadcast of the last step found when it started: the member
\* set the step began with, after joinRoom's own add, without the connection
\* that broadcast() leaves out.
BroadcastAudience(type) ==
    CASE type = "USER_LEFT" /\ event.op \in LeaveOps ->
            MembersIn(event.prevRegistry, BroadcastRoom) \ {event.conn}
      [] type = "USER_JOINED" /\ event.op = "JoinFinish" ->
            (MembersIn(event.prevRegistry, BroadcastRoom) \cup {event.conn}) \ {event.conn}
      [] type = "NEW_MESSAGE" /\ event.op = "SendBroadcast" ->
            MembersIn(event.prevRegistry, BroadcastRoom)
      [] type = "ROOM_DELETED" /\ event.op = "DeleteBroadcast" ->
            MembersIn(event.prevRegistry, BroadcastRoom)
      [] OTHER -> {}

\* C23: every step that changes a member set or enumerates one is atomic, so
\* each broadcast reaches exactly the members present when it starts, each
\* exactly once, and the member set a step leaves behind differs from the one
\* it began with by that step's own add or remove only.
C23_BroadcastExact ==
    /\ \A type \in RoomEvents : \A c \in Conns :
          Received(c, type) = IF c \in BroadcastAudience(type) THEN 1 ELSE 0
    /\ \A r \in RoomIds :
          MembersIn(roomConnections, r) =
             IF event.op \in LeaveOps /\ r = BroadcastRoom
                THEN MembersIn(event.prevRegistry, r) \ {event.conn}
             ELSE IF event.op = "JoinFinish" /\ r = event.room
                THEN MembersIn(event.prevRegistry, r) \cup {event.conn}
             ELSE MembersIn(event.prevRegistry, r)

\* C23's case: a join has added a connection to a room with a member, and the
\* member was told once.
C23_Witness ==
    /\ event.op = "JoinFinish"
    /\ \E d \in Conns \ {event.conn} :
          /\ d \in MembersIn(event.prevRegistry, event.room)
          /\ Received(d, "USER_JOINED") = 1
    /\ Received(event.conn, "USER_JOINED") = 0

\* The sends of room r that have inserted their row and not finished their trim.
Untrimmed(r) ==
    { h \in Suspended :
        /\ h.room = r
        /\ h.pc \in {"send.created", "cleanup.find", "cleanup.delete"} }

\* The history in a ROOM_JOINED for a room the store still has holds only
\* messages the store still has.
NoTrimmedInHistory ==
    (event.op = "JoinFinish" /\ event.room \in dbRooms) =>
        LET hist == sent[1].frame.messages
            ids == { dbMessages[i].id : i \in 1..Len(dbMessages) }
        IN  \A i \in 1..Len(hist) : hist[i].id \in ids

\* C24 as claimed: the store serves no history query of joinRoom and no trim
\* query of another send for a room between a send's insert into the room and
\* the end of that send's trim, and so no ROOM_JOINED carries a message that
\* has been trimmed by then.
C24_InsertTrimAtomic ==
    /\ event.op = "DbJoinFindHistory" => Untrimmed(event.room) = {}
    /\ event.op \in {"CleanupFound", "CleanupNothing"} =>
          \A h \in Untrimmed(event.room) : h.conn = event.conn /\ h.rows = event.created
    /\ NoTrimmedInHistory

\* C25: a frame that is not JSON, or is the JSON value null, is answered with
\* the one ERROR "Invalid message format"; a decoded frame of a type other than
\* JOIN_ROOM, LEAVE_ROOM and SEND_MESSAGE with the one ERROR "Unknown message
\* type"; either goes to the sender only and changes no connection's room, no
\* member set, no row of the store and no handler.
C25_BadFrameRejected ==
    [][ event'.op = "HandleBadFrame" =>
          /\ sent' = ErrorTo(event'.conn,
                             IF event'.content[1] = "unknownType"
                             THEN "Unknown message type"
                             ELSE "Invalid message format")
          /\ UNCHANGED <<connState, roomId, roomConnections, dbRooms,
                         dbMessages, nextMsgId, handlers, started>> ]_vars

\* C25's case: text that is not JSON from a connection in a room with a
\* handler of its own in flight was answered.
C25_Witness ==
    /\ event.op = "HandleBadFrame"
    /\ event.content = <<"notJson">>
    /\ roomId[event.conn] # NoRoom
    /\ InFlight(event.conn) # {}
    /\ sent = ErrorTo(event.conn, "Invalid message format")

\* The last step sent one ERROR frame, to connection c only.
OneErrorTo(c) ==
    /\ Len(sent) = 1
    /\ sent[1].to = {c}
    /\ sent[1].frame.type = "ERROR"

\* C26 as claimed: when the store call of a JOIN_ROOM or SEND_MESSAGE fails
\* right after the command was received, with no other handler of the
\* connection in flight, the connection gets one ERROR and stays open, its
\* room and every member set are what they were before the command, and the
\* handlers of the other connections are untouched.
C26_StoreFailureChangesNothing ==
    [][ (/\ \/ (event.op = "JoinStart" /\ event'.op = "JoinStoreFails")
             \/ (event.op = "SendStart" /\ event'.op = "SendStoreFails")
         /\ event.conn = event'.conn
         /\ Cardinality(InFlight(event.conn)) = 1)
        => /\ OneErrorTo(event.conn)'
           /\ connState' = connState
           /\ connState[event.conn] = "open"
           /\ roomId' = event.prevRoomId
           /\ roomConnections' = event.prevRegistry
           /\ \A h \in Suspended : h.conn # event.conn => h \in Suspended' ]_vars

\* C27: a connection whose upgrade was never granted has no room, is in no
\* member set and has no handler in flight; a request without a token or with
\* one that fails verification is refused and changes nothing; a granted
\* upgrade is for the user of a verified token and starts with room none; and
\* every other step of a connection is of one that was upgraded.
C27_OnlyVerifiedConnect ==
    /\ \A c \in Conns :
          connState[c] = "new" =>
              roomId[c] = NoRoom /\ RoomsOf(c) = {} /\ InFlight(c) = {}
    /\ (event.op \in {"Connect", "ConnectRefused"}
           /\ event.content[1] \in {"none", "forged"}) =>
          /\ connState[event.conn] = "new"
          /\ sent = <<>>
          /\ roomId = event.prevRoomId
          /\ roomConnections = event.prevRegistry
    /\ event.op = "Connect" =>
          /\ event.content[1] = UserIdOf(event.conn)
          /\ UsernameOfUser(event.content[1]) = UsernameOf(event.conn)
          /\ connState[event.conn] = "open"
          /\ roomId[event.conn] = NoRoom
          /\ RoomsOf(event.conn) = {}
    /\ (event.op \notin {"init", "Connect", "ConnectRefused"} /\ event.conn \in Conns) =>
          connState[event.conn] # "new"

\* C27's case: a request with a token that fails verification was refused
\* while the other connection was in a room.
C27_Witness ==
    /\ event.op = "ConnectRefused"
    /\ event.content = <<"forged">>
    /\ connState[event.conn] = "new"
    /\ \E d \in Conns \ {event.conn} : roomId[d] # NoRoom

\* Every row of the store has content that is not empty and has no whitespace
\* at either end.
StoredTrimmed ==
    \A i \in 1..Len(dbMessages) :
        LET t == dbMessages[i].content IN
        t # <<>> /\ t[1] # " " /\ t[Len(t)] # " "

\* The rows of the store, as a set.
Stored == { dbMessages[i] : i \in 1..Len(dbMessages) }

\* The handling of a SEND_MESSAGE keeps the room the connection had when the
\* command arrived, creates its row in that room, and broadcasts the row's
\* NEW_MESSAGE to the member set of the row's room.
SendKeepsRoom ==
    /\ event.op = "SendStart" =>
          \E h \in InFlight(event.conn) :
              /\ h.pc = "send.create"
              /\ h.room = event.prevRoomId[event.conn]
              /\ h.content = event.content
    /\ event.op = "DbCreateMessage" =>
          /\ event.created[1].roomId = event.room
          /\ event.created[1].userId = UserIdOf(event.conn)
    /\ event.op = "SendBroadcast" =>
          \A i \in 1..Len(sent) :
              /\ sent[i].frame.type = "NEW_MESSAGE"
              /\ sent[i].frame.message.id = event.created[1].id
              /\ sent[i].to = MembersIn(roomConnections, event.created[1].roomId)

\* C28: every row of the store has content that is not empty and equal to its
\* trimmed form; a row comes into the store only by the create of a
\* SEND_MESSAGE, with the room the sender's connection had when the command
\* arrived, and no row ever changes; the row's NEW_MESSAGE is broadcast to the
\* room the row was persisted to.
C28_StoredMessages ==
    /\ StoredTrimmed
    /\ [][ /\ StoredTrimmed'
           /\ SendKeepsRoom'
           /\ Stored' \subseteq Stored \/
                 (event'.op = "DbCreateMessage" /\ Stored' = Stored \cup {event'.created[1]}) ]_vars

\* C28's case: a message sent with whitespace around it is in the store and
\* its NEW_MESSAGE has gone to its room.
C28_Witness ==
    /\ event.op = "SendBroadcast"
    /\ event.content # event.created[1].content
    /\ \E i \in 1..Len(dbMessages) : dbMessages[i] = event.created[1]
    /\ sent # <<>>

\* The last n elements of a sequence (all of it when it is shorter).
Last(s, n) == SubSeq(s, Len(s) - Min(n, Len(s)) + 1, Len(s))

\* C29: whatever sends overlap, a trim's delete removes no row that is among
\* the 50 created last in its room at the moment of the delete, and no row of
\* another room: those 50 are still the 50 newest afterwards, and are what a
\* history query served after the delete returns.
C29_TrimSparesNewest ==
    [][ event'.op = "DbDeleteMany" =>
          LET r == event'.room
              before == RoomMessages(dbMessages, r)
              after == RoomMessages(dbMessages', r)
              kept == Last(before, 50)
          IN  /\ Last(after, 50) = kept
              /\ HistoryOf(FindRecent(dbMessages', r)) = Map(kept, MessageData)
              /\ \A x \in RoomIds \ {r} :
                    RoomMessages(dbMessages', x) = RoomMessages(dbMessages, x) ]_vars

\* C29's case: of two overlapping sends to a room, one has done its delete
\* while the other, whose row is in the store, has not finished.
C29_Witness ==
    /\ event.op = "DbDeleteMany"
    /\ \E h \in Untrimmed(event.room) : h.rows # event.created
    /\ Len(RoomMessages(dbMessages, event.room)) >= 50

\* C30 as claimed: a NEW_MESSAGE, USER_JOINED or USER_LEFT of a room reaches
\* only open connections whose room is that room when it is sent.
C30_OnlyCurrentRoom ==
    \A i \in 1..Len(sent) :
        sent[i].frame.type \in {"NEW_MESSAGE", "USER_JOINED", "USER_LEFT"} =>
            \A c \in sent[i].to :
                connState[c] = "open" => roomId[c] = BroadcastRoom

\* The places in log of the events that went to connection c, in log's order.
SentTo(c) ==
    Map(SelectSeq(log, LAMBDA e : c \in e.to), LAMBDA e : e.n)

HistoryIds(frame) == { frame.messages[j].id : j \in 1..Len(frame.messages) }

\* C31 as claimed: a connection that was given a message in the history of
\* its ROOM_JOINED is not sent the same message as NEW_MESSAGE by the step
\* that follows its join.
C31_AtMostOnce ==
    [][ (/\ event.op = "JoinFinish"
         /\ event'.op = "SendBroadcast"
         /\ event'.room = event.room)
        => \A i \in 1..Len(sent') :
              event.conn \in sent'[i].to =>
                  sent'[i].frame.message.id \notin HistoryIds(sent[1].frame) ]_vars

\* C32 as claimed: a message of room r whose NEW_MESSAGE did not reach
\* connection c, and whose broadcast is followed at once by the end of c's
\* join of r, is in the history of c's ROOM_JOINED.
C32_NoGap ==
    [][ (/\ event.op = "SendBroadcast"
         /\ event'.op = "JoinFinish"
         /\ event'.room = event.room
         /\ \A i \in 1..Len(sent) : event'.conn \notin sent[i].to)
        => event.created[1].id \in HistoryIds(sent'[1].frame) ]_vars

\* The largest id among rows, 0 when there are none.
MaxId(rows) ==
    IF rows = <<>> THEN 0
    ELSE CHOOSE n \in { rows[i].id : i \in 1..Len(rows) } :
            \A i \in 1..Len(rows) : rows[i].id <= n

\* C32: when sendMessage resumes from its create, NEW_MESSAGE with the created
\* message goes to every connection whose room is the message's room, a
\* connection that has just joined included; and the rows of the room that
\* the history of a ROOM_JOINED lacks are those older than its 50 and those
\* created after the store answered the history query.
C32_DeliveredOrInGap ==
    /\ event.op = "SendBroadcast" =>
          \A c \in Conns :
              roomId[c] = event.room =>
                  /\ Len(sent) = 1
                  /\ c \in sent[1].to
                  /\ sent[1].frame.type = "NEW_MESSAGE"
                  /\ sent[1].frame.message.id = event.created[1].id
    /\ event.op = "JoinFinish" =>
          LET hist == sent[1].frame.messages
              rows == RoomMessages(dbMessages, event.room)
          IN  \A i \in 1..Len(rows) :
                  rows[i].id \notin HistoryIds(sent[1].frame) =>
                      \/ rows[i].id > MaxId(event.seen)
                      \/ Len(hist) = HISTORY_TAKE /\ rows[i].id < hist[1].id

\* C32's case: a connection has joined a room while a message of the room,
\* created after the history was read, awaits its broadcast.
C32_Witness ==
    /\ event.op = "JoinFinish"
    /\ roomId[event.conn] = event.room
    /\ \E h \in Suspended :
          /\ h.pc = "send.created"
          /\ h.room = event.room
          /\ h.rows[1].id \notin HistoryIds(sent[1].frame)
          /\ h.rows[1].id > MaxId(event.seen)

\* C33 as claimed: of two messages of one room whose NEW_MESSAGE frames are
\* broadcast one right after the other to a common member, the one broadcast
\* first was created first.
C33_BroadcastInCreationOrder ==
    [][ (/\ event.op = "SendBroadcast"
         /\ event'.op = "SendBroadcast"
         /\ event'.room = event.room
         /\ sent # <<>> /\ sent' # <<>>
         /\ sent[1].to \cap sent'[1].to # {})
        => event.created[1].id < event'.created[1].id ]_vars

\* C34: a JOIN_ROOM from a connection in room r leaves r in the step that
\* receives it: it sends USER_LEFT to r's remaining members, then ROOM_LEFT to
\* the connection, takes the connection out of r and sets its room to none,
\* and sends no ROOM_JOINED and no USER_JOINED, which only the end of the join
\* sends, after the store calls; the same when the target is r itself, and
\* the join that ends makes the connection a member of its target.
C34_LeaveBeforeJoin ==
    /\ (event.op = "JoinStart" /\ event.prevRoomId[event.conn] # NoRoom) =>
          LET c == event.conn
              r == event.prevRoomId[c]
              rest == MembersIn(event.prevRegistry, r) \ {c}
          IN  /\ sent = (IF rest = {} THEN <<>>
                         ELSE << [to |-> rest,
                                  frame |-> [type |-> "USER_LEFT",
                                             username |-> UsernameOf(c)]] >>)
                        \o << [to |-> {c}, frame |-> [type |-> "ROOM_LEFT"]] >>
              /\ roomId[c] = NoRoom
              /\ c \notin MembersIn(roomConnections, r)
              /\ \E h \in Suspended :
                    h.conn = c /\ h.pc = "join.findRoom" /\ h.room = event.room
    /\ event.op = "JoinFinish" =>
          /\ sent[1].to = {event.conn}
          /\ sent[1].frame.type = "ROOM_JOINED"
          /\ \A i \in 2..Len(sent) : sent[i].frame.type = "USER_JOINED"
          /\ roomId[event.conn] = event.room
          /\ event.conn \in MembersIn(roomConnections, event.room)

\* C34's case: a connection in a room with another member asked to join the
\* room it is in, and has left it.
C34_Witness ==
    /\ event.op = "JoinStart"
    /\ event.room = event.prevRoomId[event.conn]
    /\ Len(sent) = 2
    /\ sent[2].frame.type = "ROOM_LEFT"

\* C35: a SEND_MESSAGE from a connection whose room is none is answered
\* "Not in a room" also when its content is blank, never "Message cannot be
\* empty"; and a SEND_MESSAGE that is rejected sends one ERROR, to the sender,
\* and starts no handler.
C35_RoomCheckFirst ==
    [][ /\ (/\ event'.op \in SendOps
            /\ roomId[event'.conn] = NoRoom
            /\ IsBlank(event'.content))
           => sent' = ErrorTo(event'.conn, "Not in a room")
        /\ (event'.op \in SendOps /\ handlers' = handlers)
           => /\ Len(sent') = 1
              /\ sent'[1].to = {event'.conn}
              /\ sent'[1].frame.type = "ERROR"
        /\ (event'.op \in SendOps /\ handlers' # handlers) => sent' = <<>> ]_vars

\* C35's case: a blank SEND_MESSAGE from a connection with no room was
\* answered.
C35_Witness ==
    /\ event.op \in SendOps
    /\ event.prevRoomId[event.conn] = NoRoom
    /\ IsBlank(event.content)
    /\ Len(event.content) > 0
    /\ sent = ErrorTo(event.conn, "Not in a room")

\* C36 as claimed: every room whose member set holds an open connection
\* exists in the store.
C36_MembersOnlyInStoredRooms ==
    \A r \in DOMAIN roomConnections :
        (\E c \in roomConnections[r] : connState[c] = "open") => r \in dbRooms

\* The steps of handleDeleteRoom.
DeleteOps ==
    {"DeleteUnauthorized", "DeleteStart", "DeleteRefused", "DeleteBroadcast", "DbDeleteRoom"}

\* C37: a delete request without a verified token is answered 401; with one,
\* it is answered 404 when the room is not in the store and 403 when the
\* requester is not the room's creator, in that order; none of these sends a
\* frame or changes the store, a room or a member set.  Only a request of the
\* room's creator for a room in the store broadcasts ROOM_DELETED and deletes
\* the room.
C37_DeleteOnlyByCreator ==
    [][ event'.op \in DeleteOps =>
        /\ event'.op \in {"DeleteUnauthorized", "DeleteStart", "DeleteRefused"} =>
              /\ sent' = <<>>
              /\ UNCHANGED <<connState, roomId, roomConnections, dbRooms, dbMessages>>
        /\ event'.op = "DeleteUnauthorized" =>
              /\ event'.content[1] = "401"
              /\ event'.content[2] \notin {"u1", "u2"}
              /\ UNCHANGED handlers
        /\ event'.op = "DeleteStart" => event'.content[2] \in {"u1", "u2"}
        /\ event'.op = "DeleteRefused" =>
              /\ event'.content[1] = (IF event'.room \in dbRooms THEN "403" ELSE "404")
              /\ event'.room \in dbRooms => event'.content[2] # CreatorOf(event'.room)
        /\ event'.op = "DeleteBroadcast" =>
              /\ event'.room \in dbRooms
              /\ event'.content[2] = CreatorOf(event'.room)
              /\ UNCHANGED <<dbRooms, dbMessages>>
        /\ event'.op = "DbDeleteRoom" =>
              /\ event'.content[2] = CreatorOf(event'.room)
              /\ dbRooms' = dbRooms \ {event'.room} ]_vars

\* C37's case: a delete request with a forged token, for a room that has a
\* member, was answered 401.
C37_Witness ==
    /\ event.op = "DeleteUnauthorized"
    /\ event.content = <<"401", "forged">>
    /\ event.room \in dbRooms
    /\ MembersIn(roomConnections, event.room) # {}
    /\ sent = <<>>

\* How many handlers of connection c are suspended at one of the places pcs.
Pending(c, pcs) ==
    BagCardinality([h \in { g \in Suspended : g.conn = c /\ g.pc \in pcs } |->
                        CopiesIn(h, handlers)])

\* The places of joinRoom, and those of sendMessage before its broadcast.
JoinPcs == {"join.findRoom", "join.findHistory", "join.gotHistory"}
SendPcs == {"send.create", "send.created"}

\* The last step sent connection c a frame of one of the types.
Answered(c, types) ==
    \E i \in 1..Len(sent) : c \in sent[i].to /\ sent[i].frame.type \in types

C39_ClientAgrees ==
    \A c \in Conns : connState[c] = "open" => currentRoomId[c] = roomId[c]

====
